---- MODULE Spec2Model ----
(***************************************************************************)
(* Model of the content generator front end: ContentGeneratorForm          *)
(* (components/content-generator-form.tsx) and ResultCard                  *)
(* (components/result-card.tsx).                                           *)
(*                                                                         *)
(* A JavaScript string is a sequence of one-character strings, so that the *)
(* regular expressions of the source are evaluated character by character. *)
(* The grave accent cannot be written inside a TLA+ string: BT stands for  *)
(* that one character.                                                     *)
(* Enumerated values (content_type, the position of a call) are TLA+       *)
(* strings.                                                                *)
(***************************************************************************)
EXTENDS Integers, Sequences, FiniteSets, Bags, TLC

VARIABLES formUrl, formType, loading, result, shown, calls, download

vars == <<formUrl, formType, loading, result, shown, calls, download>>

(***************************************************************************)
(* Characters and the character classes of the regular expressions.        *)
(***************************************************************************)
Lower == {"a","b","c","d","e","f","g","h","i","j","k","l","m",
          "n","o","p","q","r","s","t","u","v","w","x","y","z"}

Upper == {"A","B","C","D","E","F","G","H","I","J","K","L","M",
          "N","O","P","Q","R","S","T","U","V","W","X","Y","Z"}

Digit == {"0","1","2","3","4","5","6","7","8","9"}

\* [a-zA-Z0-9]
AlNum == Lower \cup Upper \cup Digit

\* \s, restricted to the ASCII white space
WhiteSpace == {" ", "\t", "\n", "\r", "\f"}

\* the characters before which $ and after which ^ match under the m flag
LineTerminators == {"\n", "\r"}

\* the grave accent (U+0060)
BT == "backtick"

\* the three grave accents of a code fence
Fence == <<BT, BT, BT>>

Min(S) == CHOOSE x \in S : \A y \in S : x <= y

\* t.startsWith(p, i - 1): p occurs in t at the 1-based position i
StartsWithAt(t, i, p) ==
    /\ i >= 1
    /\ i + Len(p) - 1 <= Len(t)
    /\ SubSeq(t, i, i + Len(p) - 1) = p

\* the text from position i to the end
Tail_(t, i) == SubSeq(t, i, Len(t))

\* the first position j >= i whose character is not in S (Len(t) + 1 if none):
\* where a greedy S* that starts at i stops
SkipWhile(t, i, S) ==
    Min({j \in i..(Len(t) + 1) : j = Len(t) + 1 \/ t[j] \notin S})

\* the first position j >= i at which $ matches under the m flag
\* (end of input or before a line terminator): where a lazy [\s\S]*? stops
NextLineEnd(t, i) ==
    Min({j \in i..(Len(t) + 1) : j = Len(t) + 1 \/ t[j] \in LineTerminators})

\* ^ under the m flag, at position i
AtLineStart(t, i) == i = 1 \/ t[i - 1] \in LineTerminators

\* the position after ```[a-zA-Z0-9]*\n? matched greedily from position i
OpenerEnd(t, i) ==
    LET j == SkipWhile(t, i + 3, AlNum)
    IN  IF j <= Len(t) /\ t[j] = "\n" THEN j + 1 ELSE j

(***************************************************************************)
(* JSON values as response.json() returns them.  Every value is a record   *)
(* of one shape: t is the kind, s the characters of a string, n a number,  *)
(* b a boolean, keys and vals the members of an object in order (vals      *)
(* alone: the elements of an array).                                       *)
(***************************************************************************)
JStr(s) == [t |-> "string", s |-> s, n |-> 0, b |-> FALSE, keys |-> <<>>, vals |-> <<>>]

JNum(n) == [t |-> "number", s |-> <<>>, n |-> n, b |-> FALSE, keys |-> <<>>, vals |-> <<>>]

JBool(b) == [t |-> "boolean", s |-> <<>>, n |-> 0, b |-> b, keys |-> <<>>, vals |-> <<>>]

JNull == [t |-> "null", s |-> <<>>, n |-> 0, b |-> FALSE, keys |-> <<>>, vals |-> <<>>]

JObj(keys, vals) == [t |-> "object", s |-> <<>>, n |-> 0, b |-> FALSE, keys |-> keys, vals |-> vals]

JArr(vals) == [t |-> "array", s |-> <<>>, n |-> 0, b |-> FALSE, keys |-> <<>>, vals |-> vals]

\* the value of a property that is not there
Undefined == [t |-> "undefined", s |-> <<>>, n |-> 0, b |-> FALSE, keys |-> <<>>, vals |-> <<>>]

\* typeof v
TypeOf(v) ==
    IF v.t \in {"object", "array", "null"} THEN "object" ELSE v.t

\* v[key] of a non-null value: a member of an object, undefined otherwise
Get(v, key) ==
    IF v.t = "object" /\ \E i \in 1..Len(v.keys) : v.keys[i] = key
    THEN v.vals[CHOOSE i \in 1..Len(v.keys) : v.keys[i] = key]
    ELSE Undefined

\* ToBoolean(v)
Truthy(v) ==
    CASE v.t = "string" -> v.s # <<>>
      [] v.t = "number" -> v.n # 0
      [] v.t = "boolean" -> v.b
      [] v.t \in {"null", "undefined"} -> FALSE
      [] OTHER -> TRUE

DigitChar == <<"0","1","2","3","4","5","6","7","8","9">>

RECURSIVE NumberToString(_)
\* String(n) of a natural number: its decimal digits
NumberToString(n) ==
    IF n < 10 THEN <<DigitChar[n + 1]>>
    ELSE NumberToString(n \div 10) \o <<DigitChar[(n % 10) + 1]>>

RECURSIVE Join(_, _)
\* parts.join(sep)
Join(parts, sep) ==
    IF parts = <<>> THEN <<>>
    ELSE IF Len(parts) = 1 THEN parts[1]
    ELSE parts[1] \o sep \o Join(Tail(parts), sep)

RECURSIVE StringOf(_)
\* String(v)
StringOf(v) ==
    CASE v.t = "string" -> v.s
      [] v.t = "number" -> NumberToString(v.n)
      [] v.t = "boolean" -> IF v.b THEN <<"t","r","u","e">> ELSE <<"f","a","l","s","e">>
      [] v.t = "null" -> <<"n","u","l","l">>
      [] v.t = "undefined" -> <<"u","n","d","e","f","i","n","e","d">>
      [] v.t = "array" ->
            Join([i \in 1..Len(v.vals) |->
                    IF v.vals[i].t \in {"null", "undefined"} THEN <<>>
                    ELSE StringOf(v.vals[i])], <<",">>)
      [] OTHER -> <<"[","o","b","j","e","c","t"," ","O","b","j","e","c","t","]">>

\* one character of a string inside JSON.stringify's quotes
JsonEscape(c) ==
    CASE c = "\"" -> <<"\\", "\"">>
      [] c = "\\" -> <<"\\", "\\">>
      [] c = "\n" -> <<"\\", "n">>
      [] c = "\r" -> <<"\\", "r">>
      [] c = "\t" -> <<"\\", "t">>
      [] c = "\f" -> <<"\\", "f">>
      [] OTHER -> <<c>>

\* JSON.stringify of a string
Quote(s) ==
    <<"\"">> \o Join([i \in 1..Len(s) |-> JsonEscape(s[i])], <<>>) \o <<"\"">>

\* ind spaces
Spaces(ind) == [i \in 1..ind |-> " "]

RECURSIVE Stringify(_, _)
\* JSON.stringify(v, null, 2) of a value nested ind spaces deep
Stringify(v, ind) ==
    CASE v.t = "string" -> Quote(v.s)
      [] v.t = "number" -> NumberToString(v.n)
      [] v.t = "boolean" -> StringOf(v)
      [] v.t = "array" ->
            IF v.vals = <<>> THEN <<"[", "]">>
            ELSE <<"[", "\n">>
                 \o Join([i \in 1..Len(v.vals) |->
                            Spaces(ind + 2) \o
                            (IF v.vals[i].t = "undefined" THEN <<"n","u","l","l">>
                             ELSE Stringify(v.vals[i], ind + 2))],
                         <<",", "\n">>)
                 \o <<"\n">> \o Spaces(ind) \o <<"]">>
      [] v.t = "object" ->
            LET present == SelectSeq([i \in 1..Len(v.keys) |-> i],
                                     LAMBDA i : v.vals[i].t # "undefined")
            IN  IF present = <<>> THEN <<"{", "}">>
                ELSE <<"{", "\n">>
                     \o Join([k \in 1..Len(present) |->
                                Spaces(ind + 2) \o Quote(v.keys[present[k]])
                                \o <<":", " ">>
                                \o Stringify(v.vals[present[k]], ind + 2)],
                             <<",", "\n">>)
                     \o <<"\n">> \o Spaces(ind) \o <<"}">>
      [] OTHER -> <<"n","u","l","l">>

(***************************************************************************)
(* onSubmit: the display text of a response (lines 72-85).                 *)
(***************************************************************************)
RawKey == <<"r","a","w">>

JsonFenceOpen == Fence \o <<"j","s","o","n","\n">>

JsonFenceClose == <<"\n">> \o Fence

\* the display text without the test content !== null of line 73
DisplayContentNoNullTest(content) ==
    IF TypeOf(content) = "object"
    THEN IF Truthy(Get(content, RawKey)) /\ TypeOf(Get(content, RawKey)) = "string"
         THEN Get(content, RawKey).s
         ELSE JsonFenceOpen \o Stringify(content, 0) \o JsonFenceClose
    ELSE IF TypeOf(content) = "string"
         THEN content.s
         ELSE StringOf(content)

DisplayContent(content) ==
    IF TypeOf(content) = "object" /\ content.t # "null"
    THEN IF Truthy(Get(content, RawKey)) /\ TypeOf(Get(content, RawKey)) = "string"
         THEN Get(content, RawKey).s
         ELSE JsonFenceOpen \o Stringify(content, 0) \o JsonFenceClose
    ELSE IF TypeOf(content) = "string"
         THEN content.s
         ELSE StringOf(content)

(***************************************************************************)
(* onSubmit: fence stripping (lines 87-98).                                *)
(***************************************************************************)
\* withoutStart.replace(/\n?```\s*$/, ""): $ is the end of the text here
StripTrailingFence(w) ==
    LET FenceTailAt(j) ==
            /\ StartsWithAt(w, j, Fence)
            /\ SkipWhile(w, j + 3, WhiteSpace) = Len(w) + 1
        S == {i \in 1..Len(w) :
                \/ w[i] = "\n" /\ FenceTailAt(i + 1)
                \/ FenceTailAt(i)}
    IN  IF S = {} THEN w ELSE SubSeq(w, 1, Min(S) - 1)

\* the replacer callback of lines 90-97
FenceCallback(match) ==
    IF StartsWithAt(match, 1, Fence)
    THEN LET withoutStart == Tail_(match, OpenerEnd(match, 1))
         IN  StripTrailingFence(withoutStart)
    ELSE match

\* displayContent.replace(/^```[a-zA-Z0-9]*\n?[\s\S]*?$/m, callback): the first
\* match starts at the first line that starts with a fence and ends where the
\* lazy [\s\S]*? first meets a line end
FenceReplace(t) ==
    LET S == {i \in 1..Len(t) : AtLineStart(t, i) /\ StartsWithAt(t, i, Fence)}
    IN  IF S = {} THEN t
        ELSE LET i == Min(S)
                 e == NextLineEnd(t, OpenerEnd(t, i))
             IN  SubSeq(t, 1, i - 1) \o FenceCallback(SubSeq(t, i, e - 1)) \o Tail_(t, e)

\* isBlog without its comparison: every content type is stripped
IsBlogAlways(contentType) == TRUE

IsBlog(contentType) == contentType = "blog"

UnFenced(contentType, displayContent) ==
    IF IsBlog(contentType) THEN FenceReplace(displayContent) ELSE displayContent

(***************************************************************************)
(* ResultCard: removal of the image markup that repeats the image          *)
(* (result-card.tsx, lines 18-25 and 60-63).                               *)
(***************************************************************************)
\* the characters of the class [.*+?^${}()|[\]\\]
RegExpSpecial == {".", "*", "+", "?", "^", "$", "{", "}", "(", ")", "|", "[", "]", "\\"}

\* string.replace(/[.*+?^${}()|[\]\\]/g, '\\$&')
escapeRegExp(string) ==
    Join([i \in 1..Len(string) |->
            IF string[i] \in RegExpSpecial THEN <<"\\", string[i]>> ELSE <<string[i]>>],
         <<>>)

RECURSIVE PatternOf(_)
\* new RegExp(source) of a source made of characters, escaped characters and
\* dots: a backslash makes the next character a literal, a bare dot matches
\* any character but a line terminator.  With escapeRegExp every special
\* character arrives escaped.
PatternOf(source) ==
    IF source = <<>> THEN <<>>
    ELSE IF source[1] = "\\" /\ Len(source) >= 2
    THEN <<[any |-> FALSE, c |-> source[2]]>> \o PatternOf(SubSeq(source, 3, Len(source)))
    ELSE IF source[1] = "."
    THEN <<[any |-> TRUE, c |-> "."]>> \o PatternOf(Tail(source))
    ELSE <<[any |-> FALSE, c |-> source[1]]>> \o PatternOf(Tail(source))

\* the pattern pat, one character per element, matches t at position k
MatchesAt(t, k, pat) ==
    /\ k + Len(pat) - 1 <= Len(t)
    /\ \A j \in 1..Len(pat) :
          IF pat[j].any THEN t[k + j - 1] \notin LineTerminators
          ELSE t[k + j - 1] = pat[j].c

\* the position after a match of !\[.*?\]\(<url>\) that starts at i; 0 if none
ImageMatchEnd(t, i, urlPattern) ==
    LET close == PatternOf(<<"\\", "]", "\\", "(">>) \o urlPattern \o PatternOf(<<"\\", ")">>)
        K == {k \in (i + 2)..(Len(t) + 1) :
                /\ \A j \in (i + 2)..(k - 1) : t[j] \notin LineTerminators
                /\ MatchesAt(t, k, close)}
    IN  IF StartsWithAt(t, i, <<"!", "[">>) /\ K # {}
        THEN Min(K) + Len(close)
        ELSE 0

RECURSIVE RemoveImages(_, _, _)
\* content.replace(new RegExp(..., 'g'), ''), scanning from position i
RemoveImages(t, i, urlPattern) ==
    IF i > Len(t) THEN <<>>
    ELSE LET e == ImageMatchEnd(t, i, urlPattern)
         IN  IF e # 0 THEN RemoveImages(t, e, urlPattern)
             ELSE <<t[i]>> \o RemoveImages(t, i + 1, urlPattern)

\* imageUrl ?? undefined
ImageSrc(imageUrl) ==
    IF imageUrl.t \in {"null", "undefined"} THEN Undefined ELSE imageUrl

ProcessedContent(imageUrl, content) ==
    IF Truthy(ImageSrc(imageUrl))
    THEN RemoveImages(content, 1, PatternOf(escapeRegExp(ImageSrc(imageUrl).s)))
    ELSE content

(***************************************************************************)
(* ResultCard: the name of the downloaded image (result-card.tsx, lines    *)
(* 36-58).  new URL(imageSrc, window.location.href) is the URL parser of   *)
(* the browser, modelled for the characters of the image URLs below:       *)
(* letters, "/", "\", ".", " ", "?", "#", ",", ":" and percent-encoded     *)
(* dots.                                                                   *)
(***************************************************************************)
\* the schemes whose URLs have a host and a list of path segments
SpecialSchemes ==
    {<<"h","t","t","p">>, <<"h","t","t","p","s">>, <<"f","t","p">>,
     <<"w","s">>, <<"w","s","s">>}

\* window.location.href: the page of the form is the root page of its origin
\* (app/page.tsx); BaseScheme is its scheme, BasePath its path segments
BaseScheme == <<"h","t","t","p">>

BasePath == << <<>> >>

\* the characters of a scheme after its first letter
SchemeChars == AlNum \cup {"+", "-", "."}

\* the position of the first character of t at or after i that is in S;
\* Len(t) + 1 if there is none
FindFirst(t, i, S) ==
    Min({j \in i..Len(t) : t[j] \in S} \cup {Len(t) + 1})

\* the input without its leading and trailing spaces
StripSpaces(t) ==
    LET I == {i \in 1..Len(t) : t[i] # " "}
    IN  IF I = {} THEN <<>>
        ELSE SubSeq(t, Min(I), CHOOSE j \in I : \A k \in I : k <= j)

\* the position of the colon that ends a scheme at the start of t; 0 if t
\* does not start with a scheme
SchemeEnd(t) ==
    LET j == FindFirst(t, 1, {":"})
    IN  IF /\ t # <<>>
           /\ t[1] \in Lower \cup Upper
           /\ j <= Len(t)
           /\ \A k \in 2..(j - 1) : t[k] \in SchemeChars
        THEN j
        ELSE 0

\* the characters that end a path segment
Separators(special) == IF special THEN {"/", "\\"} ELSE {"/"}

RECURSIVE Split(_, _)
\* t.split on the characters of S: the pieces between them, in order
Split(t, S) ==
    LET j == FindFirst(t, 1, S)
    IN  IF j > Len(t) THEN <<t>>
        ELSE <<SubSeq(t, 1, j - 1)>> \o Split(Tail_(t, j + 1), S)

\* a percent-encoded dot, in either case of its letter
EncodedDots == {<<"%", "2", "e">>, <<"%", "2", "E">>}

\* a single-dot path segment
IsSingleDot(seg) == seg = <<".">> \/ seg \in EncodedDots

\* a double-dot path segment
IsDoubleDot(seg) ==
    \E a, b \in {<<".">>} \cup EncodedDots : seg = a \o b

\* a path segment with the characters of the path percent-encode set encoded:
\* of the characters of the inputs, the space
PercentEncode(seg) ==
    Join([i \in 1..Len(seg) |->
            IF seg[i] = " " THEN <<"%", "2", "0">> ELSE <<seg[i]>>],
         <<>>)

\* the path without its last segment, if it has one
Shorten(path) ==
    IF path = <<>> THEN <<>> ELSE SubSeq(path, 1, Len(path) - 1)

RECURSIVE PathSegments(_, _)
\* the path state of the parser: the segments raw, the last of which is
\* followed by no separator, appended in order to path
PathSegments(raw, path) ==
    LET seg == raw[1]
        last == Len(raw) = 1
        path1 == IF IsDoubleDot(seg)
                 THEN Shorten(path) \o (IF last THEN << <<>> >> ELSE <<>>)
                 ELSE IF IsSingleDot(seg)
                 THEN path \o (IF last THEN << <<>> >> ELSE <<>>)
                 ELSE Append(path, PercentEncode(seg))
    IN  IF last THEN path1 ELSE PathSegments(Tail(raw), path1)

\* a parsed URL: ok is FALSE when the parser fails (new URL throws and fetch
\* rejects); opaque says that the path is one string, not a list of segments
ParsedUrl(path) == [ok |-> TRUE, opaque |-> FALSE, path |-> path, text |-> <<>>]

OpaqueUrl(text) == [ok |-> TRUE, opaque |-> TRUE, path |-> <<>>, text |-> text]

Failure == [ok |-> FALSE, opaque |-> FALSE, path |-> <<>>, text |-> <<>>]

\* the path state entered at the start of t with the segments path
PathState(t, path, special) ==
    LET p == SubSeq(t, 1, FindFirst(t, 1, {"?", "#"}) - 1)
    IN  ParsedUrl(PathSegments(Split(p, Separators(special)), path))

\* the authority and path start states: t is what follows the slashes before
\* the host.  A host with a space or a backslash is refused, and so is the
\* empty host of a special scheme
Authority(t, special) ==
    LET e == FindFirst(t, 1, Separators(special) \cup {"?", "#"})
        host == SubSeq(t, 1, e - 1)
        rest == Tail_(t, e)
    IN  IF (special /\ host = <<>>) \/ (\E i \in 1..Len(host) : host[i] \in {" ", "\\"})
        THEN Failure
        ELSE IF rest # <<>> /\ rest[1] \in Separators(special)
        THEN PathState(Tail(rest), <<>>, special)
        ELSE IF special
        THEN PathState(rest, <<>>, special)
        ELSE ParsedUrl(<<>>)

\* the opaque path state: the characters up to the query or the fragment, a
\* space just before which is percent-encoded
OpaquePathState(t) ==
    LET e == FindFirst(t, 1, {"?", "#"})
    IN  IF 1 < e /\ e <= Len(t) /\ t[e - 1] = " "
        THEN OpaqueUrl(SubSeq(t, 1, e - 2) \o <<"%", "2", "0">>)
        ELSE OpaqueUrl(SubSeq(t, 1, e - 1))

\* the relative state: t is resolved against window.location.href
Relative(t) ==
    IF t # <<>> /\ t[1] \in Separators(TRUE)
    THEN IF Len(t) >= 2 /\ t[2] \in Separators(TRUE)
         THEN Authority(Tail_(t, SkipWhile(t, 1, Separators(TRUE))), TRUE)
         ELSE PathState(Tail(t), <<>>, TRUE)
    ELSE IF t = <<>> \/ t[1] \in {"?", "#"}
    THEN ParsedUrl(BasePath)
    ELSE PathState(t, Shorten(BasePath), TRUE)

\* new URL(imageSrc, window.location.href)
ParseUrl(imageSrc) ==
    LET t == StripSpaces(imageSrc)
        e == SchemeEnd(t)
        scheme == SubSeq(t, 1, e - 1)
        rest == Tail_(t, e + 1)
    IN  IF e = 0 THEN Relative(t)
        ELSE IF scheme \in SpecialSchemes
        THEN IF scheme = BaseScheme /\ ~StartsWithAt(rest, 1, <<"/", "/">>)
             THEN Relative(rest)
             ELSE Authority(Tail_(rest, SkipWhile(rest, 1, Separators(TRUE))), TRUE)
        ELSE IF StartsWithAt(rest, 1, <<"/", "/">>)
        THEN Authority(Tail_(rest, 3), FALSE)
        ELSE IF StartsWithAt(rest, 1, <<"/">>)
        THEN PathState(Tail(rest), <<>>, FALSE)
        ELSE OpaquePathState(rest)

\* url.pathname
Pathname(url) ==
    IF url.opaque THEN url.text
    ELSE Join([i \in 1..Len(url.path) |-> <<"/">> \o url.path[i]], <<>>)

\* urlPath.split("/").filter(Boolean).shift(): the first segment, not the last
FileNameFromUrlFirst(urlPath) ==
    LET segments == SelectSeq(Split(urlPath, {"/"}), LAMBDA s : s # <<>>)
    IN  IF segments = <<>> THEN Undefined ELSE JStr(segments[1])

\* urlPath.split("/").filter(Boolean).pop()
FileNameFromUrl(urlPath) ==
    LET segments == SelectSeq(Split(urlPath, {"/"}), LAMBDA s : s # <<>>)
    IN  IF segments = <<>> THEN Undefined ELSE JStr(segments[Len(segments)])

Png == <<"p", "n", "g">>

\* blob.type.split("/")[1] || "png"
ExtensionFromType(type) ==
    LET parts == Split(type, {"/"})
    IN  IF Len(parts) >= 2 /\ parts[2] # <<>> THEN parts[2] ELSE Png

GeneratedImage == <<"g","e","n","e","r","a","t","e","d","-","i","m","a","g","e",".">>

\* link.download (lines 45-48)
LinkDownload(imageSrc, type) ==
    LET fileNameFromUrl == FileNameFromUrl(Pathname(ParseUrl(imageSrc)))
    IN  IF Truthy(fileNameFromUrl) THEN fileNameFromUrl.s
        ELSE GeneratedImage \o ExtensionFromType(type)

(***************************************************************************)
(* Messages of the notifications.                                          *)
(***************************************************************************)
FailedToGenerate == <<"F","a","i","l","e","d"," ","t","o"," ","g","e","n","e","r","a","t","e"," ","c","o","n","t","e","n","t",".">>

UnexpectedError == <<"A","n"," ","u","n","e","x","p","e","c","t","e","d"," ","e","r","r","o","r"," ","o","c","c","u","r","r","e","d",".">>

GeneratedSuccessfully == <<"C","o","n","t","e","n","t"," ","g","e","n","e","r","a","t","e","d"," ","s","u","c","c","e","s","s","f","u","l","l","y","!">>

\* the message of the TypeError fetch rejects with (the browser's wording)
FailedToFetch == <<"F","a","i","l","e","d"," ","t","o"," ","f","e","t","c","h">>

\* the message of the SyntaxError response.json() rejects with when the body
\* is not JSON (the start of the engine's wording)
JsonSyntaxError == <<"U","n","e","x","p","e","c","t","e","d"," ","t","o","k","e","n">>

\* the message of the TypeError of reading a property of null
NullPropertyError == <<"C","a","n","n","o","t"," ","r","e","a","d"," ","p","r","o","p","e","r","t","i","e","s"," ","o","f"," ","n","u","l","l">>

DetailKey == <<"d","e","t","a","i","l">>

ImageDownloaded == <<"I","m","a","g","e"," ","d","o","w","n","l","o","a","d","e","d">>

FailedToDownload == <<"F","a","i","l","e","d"," ","t","o"," ","d","o","w","n","l","o","a","d"," ","i","m","a","g","e">>

(***************************************************************************)
(* The state of the form and of the calls of onSubmit it has started.      *)
(***************************************************************************)
\* formSchema.content_type
ContentTypes == {"blog", "x", "facebook", "linkedin", "newsletter"}

\* useState<GeneratedContent | null>(null): has is FALSE for null
NoResult == [has |-> FALSE, content_type |-> "", image_url |-> Undefined, content |-> <<>>]

NoToast == [kind |-> "none", msg |-> <<>>]

\* a response of the generation service: kind is "ok" (2xx), "status"
\* (non-2xx) or "reject" (fetch itself fails); parses says whether the body is
\* JSON; errorData is the body of a non-2xx response; content_type, image_url
\* and content are the fields of the body of a 2xx response
Response(kind, parses, errorData, content_type, image_url, content) ==
    [kind |-> kind, parses |-> parses, errorData |-> errorData,
     content_type |-> content_type, image_url |-> image_url, content |-> content]

NoResponse == Response("none", FALSE, Undefined, "", Undefined, Undefined)

\* what a render puts on the screen: the submit button disabled or not, and
\* with a result the ResultCard of its image, content and processed content
View ==
    [disabled |-> loading,
     hasResult |-> result.has,
     imageSrc |-> IF result.has THEN ImageSrc(result.image_url) ELSE Undefined,
     content |-> IF result.has THEN result.content ELSE <<>>,
     processedContent |->
        IF result.has THEN ProcessedContent(result.image_url, result.content) ELSE <<>>]

\* the first render
FirstView ==
    [disabled |-> FALSE, hasResult |-> FALSE, imageSrc |-> Undefined,
     content |-> <<>>, processedContent |-> <<>>]

\* a call of handleDownloadImage, one followed at a time: pc is its position
\* ("idle" when none is running), imageSrc the URL it fetches, blobType the
\* type of the blob it received, linkDownload the download attribute of the
\* link it clicked, toast the notification it raised
NoDownload ==
    [pc |-> "idle", imageSrc |-> <<>>, blobType |-> <<>>, linkDownload |-> <<>>,
     toast |-> NoToast]

Init ==
    /\ formUrl = "empty"
    /\ formType = "blog"
    /\ loading = FALSE
    /\ result = NoResult
    /\ calls = EmptyBag
    /\ shown = FirstView
    /\ download = NoDownload

\* the calls of form.handleSubmit(onSubmit) that have not returned are a bag:
\* they have no identity beyond their state.  A call: pc is its position, data
\* the field values it was started with, resp the response it received,
\* displayContent and unFenced the locals of onSubmit, toast the notification
\* it raised
NewCall ==
    [pc |-> "validating",
     data |-> [url |-> formUrl, content_type |-> formType],
     resp |-> NoResponse,
     displayContent |-> <<>>,
     unFenced |-> <<>>,
     toast |-> NoToast]

\* the bag B with one more call c
Put(B, c) == B (+) SetToBag({c})

\* the bag B with the call c replaced by d
Replace(B, c, d) == (B (-) SetToBag({c})) (+) SetToBag({d})

\* the distinct calls at one of the positions pcs
CallsAt(pcs) == {c \in BagToSet(calls) : c.pc \in pcs}

\* how many requests have been sent and not answered or not yet read
InFlight ==
    LET S == CallsAt({"fetching", "reading"})
    IN  BagCardinality([c \in S |-> CopiesIn(c, calls)])

(***************************************************************************)
(* The user edits the fields (lines 139-168).                              *)
(***************************************************************************)
\* the URL field: empty (the default, no URL) or a URL
UrlInputs == {"empty", "valid"}

SetUrl(u) ==
    /\ formUrl # u
    /\ formUrl' = u
    /\ UNCHANGED <<formType, loading, result, shown, calls, download>>

SetType(t) ==
    /\ formType # t
    /\ formType' = t
    /\ UNCHANGED <<formUrl, loading, result, shown, calls, download>>

(***************************************************************************)
(* A submit event of the form (line 133): a click on the submit button or  *)
(* Enter in the URL field.  The browser delivers none while the button it  *)
(* shows is disabled (line 176); onSubmit itself tests nothing.  At most   *)
(* max calls are followed at a time.                                       *)
(***************************************************************************)
SubmitEvent(max) ==
    /\ ~shown.disabled
    /\ BagCardinality(calls) < max
    /\ calls' = Put(calls, NewCall)
    /\ UNCHANGED <<formUrl, formType, loading, result, shown, download>>

\* onSubmit up to its await of fetch without setResult(null) of line 46
HandleSubmitKeepsResult(c) ==
    /\ c.pc = "validating"
    /\ IF c.data.url = "valid"
       THEN /\ loading' = TRUE
            /\ calls' = Replace(calls, c, [c EXCEPT !.pc = "fetching"])
            /\ UNCHANGED result
       ELSE /\ calls' = calls (-) SetToBag({c})
            /\ UNCHANGED <<loading, result>>
    /\ UNCHANGED <<formUrl, formType, shown, download>>

(***************************************************************************)
(* handleSubmit has validated the fields (formSchema, lines 16-21): with   *)
(* an invalid URL onSubmit is not called; otherwise onSubmit runs up to    *)
(* its await of fetch (lines 45-62).                                       *)
(***************************************************************************)
HandleSubmit(c) ==
    /\ c.pc = "validating"
    /\ IF c.data.url = "valid"
       THEN /\ loading' = TRUE
            /\ result' = NoResult
            /\ calls' = Replace(calls, c, [c EXCEPT !.pc = "fetching"])
       ELSE /\ calls' = calls (-) SetToBag({c})
            /\ UNCHANGED <<loading, result>>
    /\ UNCHANGED <<formUrl, formType, shown, download>>

\* the message of the exception lines 64-69 throw on the response, <<>> with
\* thrown FALSE when they throw nothing
Thrown(resp) ==
    IF ~resp.parses
    THEN [thrown |-> TRUE, message |-> JsonSyntaxError]
    ELSE IF resp.kind = "ok"
    THEN [thrown |-> FALSE, message |-> <<>>]
    ELSE IF resp.errorData.t = "null"
    THEN [thrown |-> TRUE, message |-> NullPropertyError]
    ELSE LET detail == Get(resp.errorData, DetailKey)
         IN  [thrown |-> TRUE,
              message |-> StringOf(IF Truthy(detail) THEN detail
                                   ELSE JStr(FailedToGenerate))]

\* catch and finally (lines 105-110)
Catch(c, message) ==
    /\ calls' = Replace(calls, c,
                        [c EXCEPT
                           !.pc = "done",
                           !.toast = [kind |-> "error",
                                      msg |-> IF message # <<>> THEN message
                                              ELSE UnexpectedError]])
    /\ loading' = FALSE
    /\ UNCHANGED result

(***************************************************************************)
(* The promise of fetch settles (line 53): rejected, onSubmit goes to its  *)
(* catch; fulfilled, onSubmit awaits response.json() (line 65 or 69).      *)
(***************************************************************************)
FetchSettles(c, resp) ==
    /\ c.pc = "fetching"
    /\ IF resp.kind = "reject"
       THEN Catch(c, FailedToFetch)
       ELSE /\ calls' = Replace(calls, c, [c EXCEPT !.pc = "reading", !.resp = resp])
            /\ UNCHANGED <<loading, result>>
    /\ UNCHANGED <<formUrl, formType, shown, download>>

(***************************************************************************)
(* response.json() settles and onSubmit runs to its end (lines 64-110).    *)
(***************************************************************************)
OnSubmitContinue(c) ==
    /\ c.pc = "reading"
    /\ LET resultData == c.resp
           t == Thrown(resultData)
           displayContent == DisplayContent(resultData.content)
           unFenced == UnFenced(resultData.content_type, displayContent)
       IN  IF t.thrown
           THEN Catch(c, t.message)
           ELSE /\ result' = [has |-> TRUE,
                              content_type |-> resultData.content_type,
                              image_url |-> resultData.image_url,
                              content |-> unFenced]
                /\ calls' = Replace(calls, c,
                                    [c EXCEPT
                                       !.pc = "done",
                                       !.displayContent = displayContent,
                                       !.unFenced = unFenced,
                                       !.toast = [kind |-> "success",
                                                  msg |-> GeneratedSuccessfully]])
                /\ loading' = FALSE
    /\ UNCHANGED <<formUrl, formType, shown, download>>

\* the promise of a finished call settles and the call is forgotten
Return(c) ==
    /\ c.pc = "done"
    /\ calls' = calls (-) SetToBag({c})
    /\ UNCHANGED <<formUrl, formType, loading, result, shown, download>>

\* React renders the state (lines 121-207 and ResultCard)
Render ==
    /\ shown # View
    /\ shown' = View
    /\ UNCHANGED <<formUrl, formType, loading, result, calls, download>>

\* the "Generate New Content" button, shown with a result (lines 113-119, 200)
HandleNewGeneration ==
    /\ shown.hasResult
    /\ result' = NoResult
    /\ formUrl' = "empty"
    /\ formType' = "blog"
    /\ UNCHANGED <<loading, shown, calls, download>>

(***************************************************************************)
(* The "Download Image" button of ResultCard, rendered with an image       *)
(* (result-card.tsx, lines 78-82), and handleDownloadImage (lines 36-58).  *)
(***************************************************************************)
\* a click: handleDownloadImage runs up to its await of fetch (lines 37-39)
HandleDownloadImage ==
    /\ shown.hasResult
    /\ Truthy(shown.imageSrc)
    /\ download.pc = "idle"
    /\ download' = [NoDownload EXCEPT !.pc = "fetching", !.imageSrc = shown.imageSrc.s]
    /\ UNCHANGED <<formUrl, formType, loading, result, shown, calls>>

\* what fetch(imageSrc) and response.blob() settle with: kind is "reject" or
\* "blob", type the type of the blob
Blob(type) == [kind |-> "blob", type |-> type]

ImageRejected == [kind |-> "reject", type |-> <<>>]

\* the promises of fetch and of response.blob() settle and handleDownloadImage
\* runs to its end (lines 39-57): rejected, or with a URL that new URL refuses,
\* it goes to its catch
DownloadSettles(out) ==
    /\ download.pc = "fetching"
    /\ IF out.kind = "reject" \/ ~ParseUrl(download.imageSrc).ok
       THEN download' = [download EXCEPT
                           !.pc = "done",
                           !.toast = [kind |-> "error", msg |-> FailedToDownload]]
       ELSE download' = [download EXCEPT
                           !.pc = "done",
                           !.blobType = out.type,
                           !.linkDownload = LinkDownload(download.imageSrc, out.type),
                           !.toast = [kind |-> "success", msg |-> ImageDownloaded]]
    /\ UNCHANGED <<formUrl, formType, loading, result, shown, calls>>

\* the promise of a finished call settles and the call is forgotten
DownloadReturn ==
    /\ download.pc = "done"
    /\ download' = NoDownload
    /\ UNCHANGED <<formUrl, formType, loading, result, shown, calls>>

(***************************************************************************)
(* The responses the service is modelled to give, and the specifications.  *)
(***************************************************************************)
\* how many calls of handleSubmit are followed at a time
MaxCalls == 2

\* how many pieces a text of the service is made of at most
MaxPieces == 5

\* the same for the texts that come with every shape and content type
MaxShortPieces == 4

RECURSIVE TextsOf(_, _)
\* the texts made of at most k of the pieces P
TextsOf(P, k) ==
    IF k = 0 THEN {<<>>}
    ELSE LET S == TextsOf(P, k - 1)
         IN  S \cup {s \o p : s \in S, p \in P}

\* a fence, a letter (a language tag or a word), a line break, a space and a
\* character that is none of these
FencePieces == {Fence, <<"a">>, <<"\n">>, <<" ">>, <<"#">>}

FencedExample == Fence \o <<"m", "d", "\n", "#", " ", "T", "\n", "B", "\n">> \o Fence

QuotaExceeded == <<"q","u","o","t","a"," ","e","x","c","e","e","d","e","d">>

FooKey == <<"f","o","o">>

Ok(content_type, image_url, content) ==
    Response("ok", TRUE, Undefined, content_type, image_url, content)

Status(errorData) == Response("status", TRUE, errorData, "", Undefined, Undefined)

\* a body that is not JSON, with a 2xx or a non-2xx status
NotJson(kind) == Response(kind, FALSE, Undefined, "", Undefined, Undefined)

Rejected == Response("reject", FALSE, Undefined, "", Undefined, Undefined)

LifecycleResponses ==
    {Ok("blog", JNull, JStr(FencedExample)),
     Status(JObj(<<DetailKey>>, <<JStr(QuotaExceeded)>>)),
     Status(JObj(<<>>, <<>>)),
     Rejected}

\* values of a member raw or detail, or elements of an array
MemberValues ==
    {JStr(QuotaExceeded), JStr(<<>>), JNum(42), JNum(0), JBool(TRUE), JBool(FALSE),
     JNull, JObj(<<>>, <<>>), JArr(<<JObj(<<>>, <<>>)>>)}

\* the shapes of content: strings, objects with and without raw, arrays,
\* numbers, booleans, null, and no content at all
ShapeContents ==
    {JStr(t) : t \in TextsOf(FencePieces, MaxShortPieces)}
    \cup {JObj(<<RawKey>>, <<JStr(t)>>) : t \in TextsOf(FencePieces, MaxShortPieces)}
    \cup {JObj(<<RawKey>>, <<v>>) : v \in MemberValues}
    \cup {JObj(<<FooKey, RawKey>>, <<JNum(1), JStr(<<"#">>)>>),
          JObj(<<FooKey>>, <<JNum(1)>>), JObj(<<>>, <<>>),
          JArr(<<>>), JArr(<<JNum(1), JNum(2)>>), JArr(<<JStr(<<"a">>), JNull>>),
          JNum(0), JNum(42), JBool(TRUE), JBool(FALSE), JNull, Undefined}

\* the bodies of a non-2xx response
ErrorBodies ==
    {JObj(<<DetailKey>>, <<v>>) : v \in MemberValues}
    \cup {JObj(<<>>, <<>>), JObj(<<FooKey>>, <<JNum(1)>>), JNull, JNum(42),
          JStr(QuotaExceeded), JArr(<<>>)}

ShapeResponses ==
    {Ok(ct, JNull, c) : ct \in ContentTypes, c \in ShapeContents}
    \cup {Status(e) : e \in ErrorBodies}
    \cup {NotJson("ok"), NotJson("status"), Rejected}

PipelineResponses ==
    {Ok(ct, JNull, JStr(t)) : ct \in {"blog", "x"}, t \in TextsOf(FencePieces, MaxPieces)}

\* how many pieces a text with image markup is made of at most
MaxCardPieces == 3

\* two image URLs: the dot of the first, left unescaped, would match the x of
\* the second; the first has parentheses as well
DotUrl == <<"a", ".", "(", "1", ")">>

PlainUrl == <<"a", "x", "(", "1", ")">>

\* ![t](url)
ImageMarkup(url) == <<"!", "[", "t", "]", "(">> \o url \o <<")">>

\* an image of either URL, a word, a line break, and the start and the end of
\* an image directive alone
CardPieces ==
    {ImageMarkup(DotUrl), ImageMarkup(PlainUrl), <<"t">>, <<"\n">>, <<"!", "[">>,
     <<"]", "(">> \o DotUrl \o <<")">>}

CardResponses ==
    {Ok("x", u, JStr(t)) :
        u \in {JStr(DotUrl), JStr(PlainUrl), JStr(<<>>), JNull},
        t \in TextsOf(CardPieces, MaxCardPieces)}

\* the form with a URL typed in
InitFilled ==
    /\ formUrl = "valid"
    /\ formType = "blog"
    /\ loading = FALSE
    /\ result = NoResult
    /\ calls = EmptyBag
    /\ shown = FirstView
    /\ download = NoDownload

\* one submission at a time, made when no result is stored or shown,
\* answered from R
OneCall(R) ==
    \/ ~result.has /\ ~shown.hasResult /\ SubmitEvent(1)
    \/ \E c \in CallsAt({"validating"}) : HandleSubmit(c)
    \/ \E c \in CallsAt({"fetching"}) : \E resp \in R : FetchSettles(c, resp)
    \/ \E c \in CallsAt({"reading"}) : OnSubmitContinue(c)
    \/ \E c \in CallsAt({"done"}) : Return(c)
    \/ Render
    \/ HandleNewGeneration

Next ==
    \/ \E u \in UrlInputs : SetUrl(u)
    \/ SubmitEvent(MaxCalls)
    \/ \E c \in CallsAt({"validating"}) : HandleSubmit(c)
    \/ \E c \in CallsAt({"fetching"}) : \E resp \in LifecycleResponses : FetchSettles(c, resp)
    \/ \E c \in CallsAt({"reading"}) : OnSubmitContinue(c)
    \/ \E c \in CallsAt({"done"}) : Return(c)
    \/ Render
    \/ HandleNewGeneration

\* the lifecycle of the form, with overlapping calls, the content type left
\* at its default
Spec == Init /\ [][Next]_vars

NextShapes == OneCall(ShapeResponses)

\* one call at a time, every shape of response
SpecShapes == InitFilled /\ [][NextShapes]_vars

NextCard ==
    \/ \E t \in ContentTypes : SetType(t)
    \/ OneCall(CardResponses)

\* one call at a time, texts with image markup and an image
SpecCard == InitFilled /\ [][NextCard]_vars

NextPipeline == OneCall(PipelineResponses)

\* one call at a time, every text
SpecPipeline == InitFilled /\ [][NextPipeline]_vars

\* how many pieces an image URL is made of after its start
MaxUrlPieces == 3

\* the URL of the example
ExampleUrl ==
    <<"h","t","t","p","s",":","/","/","x",".","c","o","m","/","g","e","n","/",
      "a","b","c",".","j","p","g">>

\* an origin
XCom == <<"h","t","t","p","s",":","/","/","x",".","c","o","m">>

\* the start of a data: URL of a PNG image
DataPng == <<"d","a","t","a",":","i","m","a","g","e","/","p","n","g",",">>

\* the start of an image URL: nothing (a URL relative to the page), an
\* origin, or the start of a data: URL
UrlStarts == {<<>>, XCom, DataPng}

\* a slash, a backslash, a letter, a dot, a percent-encoded dot, a space, and
\* the start of a query
UrlPieces ==
    {<<"/">>, <<"\\">>, <<"a">>, <<".">>, <<"%", "2", "e">>, <<" ">>, <<"?">>}

\* URLs with a fragment: alone, after a path, and after a space
FragmentUrls ==
    {<<"#", "a">>,
     XCom \o <<"/", "a", "#", "/", "b">>,
     XCom \o <<"#", "/", "b">>,
     DataPng \o <<"a", " ", "#", "/", "b">>}

ImageUrls ==
    {s \o t : s \in UrlStarts, t \in TextsOf(UrlPieces, MaxUrlPieces)}
    \cup FragmentUrls
    \cup {ExampleUrl}

\* the types of the blob of a response: none, image types, a type with a
\* parameter, and a type with a parameter whose quoted value has a slash
BlobTypes ==
    {<<>>,
     <<"i","m","a","g","e","/","p","n","g">>,
     <<"i","m","a","g","e","/","w","e","b","p">>,
     <<"i","m","a","g","e","/","s","v","g","+","x","m","l">>,
     <<"t","e","x","t","/","h","t","m","l",";","c","h","a","r","s","e","t","=","u","t","f","-","8">>,
     <<"i","m","a","g","e","/","p","n","g",";","n","a","m","e","=","\"","a","/","b","\"">>}

\* what the fetch of the running download can settle with: a URL that does
\* not parse is rejected, a data: URL gives its own blob, any other URL is
\* rejected or answered with a blob of any type
ImageFetchOutcomes ==
    IF download.pc # "fetching" THEN {}
    ELSE IF ~ParseUrl(download.imageSrc).ok THEN {ImageRejected}
    ELSE IF ParseUrl(download.imageSrc).opaque
    THEN {Blob(<<"i","m","a","g","e","/","p","n","g">>)}
    ELSE {ImageRejected} \cup {Blob(type) : type \in BlobTypes}

DownloadResponses == {Ok("x", JStr(u), JStr(<<>>)) : u \in ImageUrls}

NextDownload ==
    \/ ~result.has /\ ~shown.hasResult /\ SubmitEvent(1)
    \/ \E c \in CallsAt({"validating"}) : HandleSubmit(c)
    \/ \E c \in CallsAt({"fetching"}) : \E resp \in DownloadResponses : FetchSettles(c, resp)
    \/ \E c \in CallsAt({"reading"}) : OnSubmitContinue(c)
    \/ \E c \in CallsAt({"done"}) : Return(c)
    \/ Render
    \/ HandleDownloadImage
    \/ \E out \in ImageFetchOutcomes : DownloadSettles(out)
    \/ DownloadReturn

\* one call answered with an image, its result left on the screen, and the
\* downloads of the image one at a time
SpecDownload == InitFilled /\ [][NextDownload]_vars

(***************************************************************************)
(* Properties.                                                             *)
(***************************************************************************)
\* the calls of onSubmit that ended with a stored result
Succeeded == {c \in CallsAt({"done"}) : c.toast.kind = "success"}

\* where the tag of the opening fence of t ends
TagEnd(t) == SkipWhile(t, 4, AlNum)

\* t is one fenced block: its first line is three grave accents and an
\* alphanumeric tag, its last line is three grave accents, and no line between
\* them starts with a fence
IsFencedBlock(t) ==
    /\ StartsWithAt(t, 1, Fence)
    /\ TagEnd(t) <= Len(t) - 3
    /\ t[TagEnd(t)] = "\n"
    /\ t[Len(t) - 3] = "\n"
    /\ SubSeq(t, Len(t) - 2, Len(t)) = Fence
    /\ \A i \in (TagEnd(t) + 1)..(Len(t) - 3) :
          ~(t[i - 1] = "\n" /\ StartsWithAt(t, i, Fence))

\* the lines of a fenced block between its two fence lines
InnerText(t) == SubSeq(t, TagEnd(t) + 1, Len(t) - 4)

\* C1: for a "blog" response whose display text is one fenced block, the
\* content that is stored is exactly the text between the two fence lines.
C1_FencedBlockGivesInnerText ==
    \A c \in Succeeded :
        (c.resp.content_type = "blog" /\ IsFencedBlock(c.displayContent))
            => c.unFenced = InnerText(c.displayContent)

\* C7: for a "blog" response whose display text is not one fenced block from
\* its first line to its last, the display text is stored unchanged.
C7_OtherTextUnchanged ==
    \A c \in Succeeded :
        (c.resp.content_type = "blog" /\ ~IsFencedBlock(c.displayContent))
            => c.unFenced = c.displayContent

\* C8: stripping the fences of "blog" content is idempotent: stripping what
\* was stored gives what was stored.
C8_StripIdempotent ==
    \A c \in Succeeded :
        c.resp.content_type = "blog"
            => UnFenced("blog", c.unFenced) = c.unFenced

\* C10: for a response whose content_type is not "blog" the stored content is
\* the display text, character for character.
C10_NotBlogUnchanged ==
    \A c \in Succeeded :
        c.resp.content_type # "blog"
            => /\ c.unFenced = c.displayContent
               /\ result.has => result.content = c.displayContent

\* a response that is not "blog" and whose display text starts with a fence has
\* been stored as it was
C10_Witness ==
    \E c \in Succeeded :
        /\ c.resp.content_type # "blog"
        /\ StartsWithAt(c.displayContent, 1, Fence)
        /\ IsFencedBlock(c.displayContent)
        /\ result.has
        /\ result.content = c.displayContent

\* the display text is the JSON of the content between the json fence lines
JsonFenced(c) ==
    c.displayContent = JsonFenceOpen \o Stringify(c.resp.content, 0) \o JsonFenceClose

\* C2: whenever content is an object with a member raw that is a string, the
\* display text is that string, whatever the string.
C2_RawStringVerbatim ==
    \A c \in Succeeded :
        (c.resp.content.t = "object" /\ Get(c.resp.content, RawKey).t = "string")
            => c.displayContent = Get(c.resp.content, RawKey).s

\* C3 as stated: content that is a number, a boolean, null or an array is
\* shown as its plain string coercion, not as fenced JSON.
C3_OtherTypesCoerced ==
    \A c \in Succeeded :
        c.resp.content.t \in {"number", "boolean", "null", "array"}
            => /\ c.displayContent = StringOf(c.resp.content)
               /\ ~JsonFenced(c)

\* C3 as amended: content that is a number, a boolean or null is shown as its
\* plain string coercion, not as fenced JSON; an array is an object to typeof
\* and is shown as pretty-printed JSON between json fence lines.
C3_PrimitivesCoercedArraysFenced ==
    \A c \in Succeeded :
        /\ c.resp.content.t \in {"number", "boolean", "null"}
              => /\ c.displayContent = StringOf(c.resp.content)
                 /\ ~StartsWithAt(c.displayContent, 1, Fence)
        /\ c.resp.content.t = "array"
              => /\ JsonFenced(c)
                 /\ StartsWithAt(c.displayContent, 1, JsonFenceOpen \o <<"[">>)

\* the array [1, 2] has been shown as fenced JSON, one element a line
C3_Witness ==
    \E c \in Succeeded :
        /\ c.resp.content = JArr(<<JNum(1), JNum(2)>>)
        /\ c.displayContent =
              JsonFenceOpen
              \o <<"[", "\n", " ", " ", "1", ",", "\n", " ", " ", "2", "\n", "]">>
              \o JsonFenceClose

\* the calls of onSubmit that ended on a non-2xx response
Refused == {c \in CallsAt({"done"}) : c.resp.kind = "status"}

\* the body of the response of c is JSON with a member detail that is a string
HasDetailString(c) ==
    /\ c.resp.parses
    /\ c.resp.errorData.t = "object"
    /\ Get(c.resp.errorData, DetailKey).t = "string"

\* C6: on a non-2xx response the error notification shows the detail string of
\* the body when there is one and the generic failure message when there is
\* none, and no result is stored.
C6_DetailOrGenericMessage ==
    \A c \in Refused :
        /\ c.toast.kind = "error"
        /\ c.toast.msg = IF HasDetailString(c)
                         THEN Get(c.resp.errorData, DetailKey).s
                         ELSE FailedToGenerate
        /\ ~result.has

\* C5: at most one generation request is in flight at any time.
C5_AtMostOneInFlight == InFlight <= 1

\* the state of the lifecycle: Idle stands for Idle and Failed, which differ
\* by the notification only
Lifecycle ==
    IF loading THEN "Submitting" ELSE IF result.has THEN "Success" ELSE "Idle"

\* C9 as stated, its last clause: Submitting is never entered from a state
\* other than Idle (or Failed); in particular not from Success.
C9_SubmittingOnlyFromIdle ==
    [][(Lifecycle' = "Submitting" /\ Lifecycle # "Submitting") => Lifecycle = "Idle"]_vars

\* how many calls have ended with a notification of this kind and not returned
Ended(kind) ==
    LET S == {c \in CallsAt({"done"}) : c.toast.kind = kind}
    IN  BagCardinality([c \in S |-> CopiesIn(c, calls)])

\* a step of the lifecycle as amended
C9_Step ==
    /\ ~(loading' /\ result'.has)
    /\ \A c \in CallsAt({"done"})' : c.toast.kind \in {"success", "error"}
    /\ (~loading /\ loading') => (InFlight' = InFlight + 1 /\ ~result'.has)
    /\ (loading /\ ~loading') =>
          (Ended("success")' + Ended("error")' = Ended("success") + Ended("error") + 1)
    /\ (Ended("success")' = Ended("success") + 1) => (~loading' /\ result'.has)
    /\ (Ended("error")' = Ended("error") + 1) => (~loading' /\ result' = result)
    /\ (~result.has /\ result'.has) => (Ended("success")' = Ended("success") + 1)
    /\ (result.has /\ ~result'.has) =>
          \/ loading' /\ InFlight' = InFlight + 1
          \/ shown.hasResult /\ loading' = loading /\ calls' = calls

\* C9 as amended: the form is never loading with a result stored; loading is
\* set only by a call of onSubmit that starts, from Idle or Failed and from
\* Success as well, and the result is cleared with it; loading is cleared only
\* by a call that ends, in exactly one of success (a result is stored) or
\* failure (the result is left alone), and a call that ends clears it; a
\* result is stored only by a call that ends in success, and removed only by
\* a call that starts or by the reset of a result that is shown.
C9_Lifecycle == [][C9_Step]_vars

\* a call is in flight, started while the result of an earlier one was on
\* the screen with the submit button enabled
C9_Witness ==
    /\ loading
    /\ ~result.has
    /\ InFlight = 1
    /\ shown.hasResult
    /\ ~shown.disabled

\* the spans <<i, j>> of t that are an image directive of this URL: ![, a text
\* without brackets or line breaks, ](, the URL and )
ImageSpans(t, url) ==
    {sp \in (1..Len(t)) \X (1..Len(t)) :
        /\ StartsWithAt(t, sp[1], <<"!", "[">>)
        /\ \E k \in (sp[1] + 2)..sp[2] :
              /\ SubSeq(t, k, sp[2]) = <<"]", "(">> \o url \o <<")">>
              /\ \A j \in (sp[1] + 2)..(k - 1) : t[j] \notin {"[", "]", "\n"}}

\* C4: with an image URL, the content is shown with exactly one image
\* directive of that URL deleted and every other character untouched.
C4_OneDirectiveDeleted ==
    (shown.hasResult /\ Truthy(shown.imageSrc)) =>
        LET t == shown.content
            S == ImageSpans(t, shown.imageSrc.s)
        IN  IF S = {} THEN shown.processedContent = t
            ELSE \E sp \in S :
                    shown.processedContent =
                        SubSeq(t, 1, sp[1] - 1) \o SubSeq(t, sp[2] + 1, Len(t))

\* the downloads that ended with a click on the link
Downloaded == download.pc = "done" /\ download.toast.kind = "success"

\* the path of the image URL as the browser resolves it
UrlPath == Pathname(ParseUrl(download.imageSrc))

\* name is the last non-empty segment of path: it is not empty, has no slash,
\* starts path or follows a slash, and only slashes follow it
IsLastSegment(name, path) ==
    /\ name # <<>>
    /\ \A i \in 1..Len(name) : name[i] # "/"
    /\ \E i \in 1..Len(path) :
          /\ StartsWithAt(path, i, name)
          /\ i = 1 \/ path[i - 1] = "/"
          /\ \A k \in (i + Len(name))..Len(path) : path[k] = "/"

\* the part of a media type after its first slash, up to a second slash if
\* there is one; empty when the type has no slash
MediaSubtype(type) ==
    LET a == FindFirst(type, 1, {"/"})
    IN  SubSeq(type, a + 1, FindFirst(type, a + 1, {"/"}) - 1)

\* C11: the name of a downloaded image is the last non-empty segment of the
\* path of the image URL when the path has one ("https://x.com/gen/abc.jpg"
\* gives "abc.jpg"); otherwise it is "generated-image." followed by the part
\* after the slash of the type of the fetched blob, or by "png" when the type
\* has no such part.
C11_DownloadFileName ==
    Downloaded =>
        /\ IF \E i \in 1..Len(UrlPath) : UrlPath[i] # "/"
           THEN IsLastSegment(download.linkDownload, UrlPath)
           ELSE download.linkDownload =
                   GeneratedImage \o (IF MediaSubtype(download.blobType) # <<>>
                                      THEN MediaSubtype(download.blobType)
                                      ELSE Png)
        /\ download.imageSrc = ExampleUrl =>
              download.linkDownload = <<"a","b","c",".","j","p","g">>

\* the image of a URL without a path segment, answered with an image/webp
\* blob, has been downloaded as generated-image.webp
C11_Witness ==
    /\ Downloaded
    /\ download.imageSrc = XCom
    /\ download.blobType = <<"i","m","a","g","e","/","w","e","b","p">>
    /\ download.linkDownload = GeneratedImage \o <<"w","e","b","p">>

====
